---------------------------- MODULE Spec2Model ----------------------------
(***************************************************************************)
(* Location detection and place-name resolution of src/src/App.jsx.        *)
(*                                                                         *)
(* JavaScript strings are modelled as sequences of one-character strings,  *)
(* so that toLowerCase, the regular-expression replacements, trim,         *)
(* includes and === are computed character by character.  null, undefined  *)
(* and '' are all falsy in the code and every test on them is a falsiness  *)
(* test; all three are modelled by the empty sequence.                     *)
(***************************************************************************)
EXTENDS Naturals, Sequences, FiniteSets

\* ------------------------------------------------------------------------
\* Strings
\* ------------------------------------------------------------------------

None == <<>>

\* the lower-case letter of each upper-case letter
LowerOf ==
  [A |-> "a", B |-> "b", C |-> "c", D |-> "d", E |-> "e", F |-> "f",
   G |-> "g", H |-> "h", I |-> "i", J |-> "j", K |-> "k", L |-> "l",
   M |-> "m", N |-> "n", O |-> "o", P |-> "p", Q |-> "q", R |-> "r",
   S |-> "s", T |-> "t", U |-> "u", V |-> "v", W |-> "w", X |-> "x",
   Y |-> "y", Z |-> "z"]

\* The whitespace class \s of the regular expressions; the names handled
\* here hold no other whitespace character than the space.
IsSpace(c) == c = " "

toLowerChar(c) == IF c \in DOMAIN LowerOf THEN LowerOf[c] ELSE c

\* String.prototype.toLowerCase
toLowerCase(s) == [i \in 1..Len(s) |-> toLowerChar(s[i])]

\* s.slice(n): s without its first n characters
Drop(s, n) == SubSeq(s, n + 1, Len(s))

\* whether token t occurs in s starting at position p (1-based)
TokenAt(s, p, t) ==
  /\ p >= 1
  /\ p + Len(t) - 1 <= Len(s)
  /\ SubSeq(s, p, p + Len(t) - 1) = t

\* String.prototype.includes
includes(s, t) == \E p \in 1..(Len(s) + 1) : TokenAt(s, p, t)

\* number of whitespace characters of s from position p on (a greedy \s*)
SpaceRun(s, p) ==
  IF \A k \in p..Len(s) : IsSpace(s[k])
  THEN IF p > Len(s) THEN 0 ELSE Len(s) - p + 1
  ELSE (CHOOSE k \in p..Len(s) :
          /\ ~IsSpace(s[k])
          /\ \A j \in p..(k - 1) : IsSpace(s[j])) - p

\* String.prototype.trim
trim(s) ==
  LET a == SpaceRun(s, 1)
      keep == {k \in (a + 1)..Len(s) : ~IsSpace(s[k])}
      b == IF keep = {} THEN a
           ELSE CHOOSE k \in keep : \A j \in keep : j <= k
  IN  SubSeq(s, a + 1, b)

\* index of the first alternative of the alternation `tokens' that matches
\* s at position p, or 0: a backtracking matcher tries the alternatives in
\* the order written, and the \s* that follows each of them always matches
FirstAlt(s, p, tokens) ==
  LET hits == {k \in 1..Len(tokens) : TokenAt(s, p, tokens[k])}
  IN  IF hits = {} THEN 0
      ELSE CHOOSE k \in hits : \A j \in hits : k <= j

\* s.replace(/^(t1|t2|...)\s*/i, '') on a lower-cased s
StripLeading(s, tokens) ==
  LET k == FirstAlt(s, 1, tokens)
  IN  IF k = 0 THEN s
      ELSE LET n == Len(tokens[k])
           IN  Drop(s, n + SpaceRun(s, n + 1))

\* s.replace(/\s+(t1|t2|...)\s*/i, ' ') on a lower-cased s: the leftmost
\* match only (no g flag).  \s+ is greedy and no token starts with
\* whitespace, so a match at position p takes the whole run of whitespace
\* from p and needs a token right behind it.
ReplaceEmbedded(s, tokens) ==
  LET starts == {p \in 1..Len(s) :
                   /\ IsSpace(s[p])
                   /\ FirstAlt(s, p + SpaceRun(s, p), tokens) # 0}
  IN  IF starts = {} THEN s
      ELSE LET p == CHOOSE q \in starts : \A r \in starts : q <= r
               t == p + SpaceRun(s, p)
               n == Len(tokens[FirstAlt(s, t, tokens)])
               e == t + n + SpaceRun(s, t + n)
           IN  SubSeq(s, 1, p - 1) \o <<" ">> \o SubSeq(s, e, Len(s))

\* s.replace(/^kab\.?\s*/i, '') on a lower-cased s
StripKab(s) ==
  IF TokenAt(s, 1, <<"k","a","b">>)
  THEN LET n == IF TokenAt(s, 4, <<".">>) THEN 4 ELSE 3
       IN  Drop(s, n + SpaceRun(s, n + 1))
  ELSE s

\* ------------------------------------------------------------------------
\* Normalisation and matching (findMatchingProvince, findMatchingCity)
\* ------------------------------------------------------------------------

\* /^(provinsi|prov|daerah|istimewa|khusus)\s*/i
ProvinceLeadTokens ==
  <<<<"p","r","o","v","i","n","s","i">>,
    <<"p","r","o","v">>,
    <<"d","a","e","r","a","h">>,
    <<"i","s","t","i","m","e","w","a">>,
    <<"k","h","u","s","u","s">>>>

\* /\s+(daerah|istimewa|khusus)\s*/i
ProvinceEmbeddedTokens ==
  <<<<"d","a","e","r","a","h">>,
    <<"i","s","t","i","m","e","w","a">>,
    <<"k","h","u","s","u","s">>>>

\* /^(provinsi|prov|d\.i\.|d\.i\.|daerah|istimewa)\s*/i
ProvinceEntryTokens ==
  <<<<"p","r","o","v","i","n","s","i">>,
    <<"p","r","o","v">>,
    <<"d",".","i",".">>,
    <<"d",".","i",".">>,
    <<"d","a","e","r","a","h">>,
    <<"i","s","t","i","m","e","w","a">>>>

\* /^(kabupaten|kabupaten|kab|kota|city|daerah|khusus|district|regency|municipality)\s*/i
CityLeadTokens ==
  <<<<"k","a","b","u","p","a","t","e","n">>,
    <<"k","a","b","u","p","a","t","e","n">>,
    <<"k","a","b">>,
    <<"k","o","t","a">>,
    <<"c","i","t","y">>,
    <<"d","a","e","r","a","h">>,
    <<"k","h","u","s","u","s">>,
    <<"d","i","s","t","r","i","c","t">>,
    <<"r","e","g","e","n","c","y">>,
    <<"m","u","n","i","c","i","p","a","l","i","t","y">>>>

\* /\s+(kabupaten|kab|kota|city|daerah|khusus)\s*/i
CityEmbeddedTokens ==
  <<<<"k","a","b","u","p","a","t","e","n">>,
    <<"k","a","b">>,
    <<"k","o","t","a">>,
    <<"c","i","t","y">>,
    <<"d","a","e","r","a","h">>,
    <<"k","h","u","s","u","s">>>>

\* the query-side normalisation of findMatchingProvince
NormalizeProvince(name) ==
  trim(ReplaceEmbedded(StripLeading(toLowerCase(name), ProvinceLeadTokens),
                       ProvinceEmbeddedTokens))

\* the entry-side stripping of findMatchingProvince (both find callbacks)
StripProvinceEntry(p) ==
  trim(StripLeading(toLowerCase(p), ProvinceEntryTokens))

\* the query-side normalisation of findMatchingCity
NormalizeCity(name) ==
  trim(ReplaceEmbedded(StripLeading(toLowerCase(name), CityLeadTokens),
                       CityEmbeddedTokens))

\* the entry-side stripping of findMatchingCity (both find callbacks)
StripCityEntry(c) ==
  trim(StripLeading(StripKab(toLowerCase(c)), <<<<"k","o","t","a">>>>))

\* Array.prototype.find over the positions `hits' of the entries that
\* satisfy the callback: the first such entry, or the falsy undefined
Find(list, hits) ==
  IF hits = {} THEN None
  ELSE list[CHOOSE i \in hits : \A j \in hits : i <= j]

\* the first find of findMatchingProvince
ExactProvince(name, provs) ==
  LET normalizedName == NormalizeProvince(name)
  IN  Find(provs, {i \in 1..Len(provs) :
                     StripProvinceEntry(provs[i]) = normalizedName})

\* the second find of findMatchingProvince
PartialProvince(name, provs) ==
  LET normalizedName == NormalizeProvince(name)
  IN  Find(provs, {i \in 1..Len(provs) :
                     LET provinceName == StripProvinceEntry(provs[i])
                     IN  \/ includes(provinceName, normalizedName)
                         \/ includes(normalizedName, provinceName)})

\* the step of findMatchingProvince that produced its result, as logged
ProvinceStep(name, provs) ==
  IF name = None THEN "none"
  ELSE IF ExactProvince(name, provs) # None THEN "exact"
  ELSE IF PartialProvince(name, provs) # None THEN "partial"
  ELSE "none"

\* a findMatchingProvince that hands the name back when no entry matches
findMatchingProvince_Echo(name, provs) ==
  IF name = None THEN None
  ELSE LET match == ExactProvince(name, provs)
       IN  IF match # None THEN match
           ELSE IF PartialProvince(name, provs) # None
           THEN PartialProvince(name, provs)
           ELSE name

findMatchingProvince(name, provs) ==
  IF name = None THEN None
  ELSE LET match == ExactProvince(name, provs)
       IN  IF match # None THEN match ELSE PartialProvince(name, provs)

\* the first find of findMatchingCity
ExactCity(name, citiesList) ==
  LET normalizedName == NormalizeCity(name)
  IN  Find(citiesList, {i \in 1..Len(citiesList) :
                          StripCityEntry(citiesList[i]) = normalizedName})

\* the second find of findMatchingCity
PartialCity(name, citiesList) ==
  LET normalizedName == NormalizeCity(name)
  IN  Find(citiesList, {i \in 1..Len(citiesList) :
                          LET cityName == StripCityEntry(citiesList[i])
                          IN  \/ includes(cityName, normalizedName)
                              \/ includes(normalizedName, cityName)})

\* the step of findMatchingCity that produced its result, as logged
CityStep(name, citiesList) ==
  IF name = None \/ citiesList = <<>> THEN "none"
  ELSE IF ExactCity(name, citiesList) # None THEN "exact"
  ELSE IF PartialCity(name, citiesList) # None THEN "partial"
  ELSE "none"

\* a findMatchingCity with one pass over the list: the first entry that
\* satisfies the exact or the partial test
findMatchingCity_SinglePass(name, citiesList) ==
  IF name = None THEN None
  ELSE IF citiesList = <<>> THEN None
  ELSE LET normalizedName == NormalizeCity(name)
       IN  Find(citiesList, {i \in 1..Len(citiesList) :
                               LET cityName == StripCityEntry(citiesList[i])
                               IN  \/ cityName = normalizedName
                                   \/ includes(cityName, normalizedName)
                                   \/ includes(normalizedName, cityName)})

findMatchingCity(name, citiesList) ==
  IF name = None THEN None
  ELSE IF citiesList = <<>> THEN None
  ELSE LET match == ExactCity(name, citiesList)
       IN  IF match # None THEN match ELSE PartialCity(name, citiesList)

\* ------------------------------------------------------------------------
\* Bounds of the model and the data of the external collaborators
\* ------------------------------------------------------------------------

\* detectLocation calls in one behaviour
MaxAttempts == 2

DKIJakarta == <<"D","K","I"," ","J","a","k","a","r","t","a">>
DIYogyakarta == <<"D",".","I","."," ","Y","o","g","y","a","k","a","r","t","a">>
JawaBarat == <<"J","a","w","a"," ","B","a","r","a","t">>
JawaTengah == <<"J","a","w","a"," ","T","e","n","g","a","h">>

\* GET ${API_BASE}/provinsi: the province reference list
ProvinceList == <<DKIJakarta, DIYogyakarta, JawaBarat, JawaTengah>>

\* POST ${API_BASE}/kabkota: the city reference list scoped to a province
CityList(province) ==
  IF province = DKIJakarta THEN <<<<"K","o","t","a"," ","J","a","k","a","r","t","a"," ","U","t","a","r","a">>>>
  ELSE IF province = DIYogyakarta THEN
    <<<<"K","a","b","."," ","S","l","e","m","a","n">>,
      <<"K","o","t","a"," ","Y","o","g","y","a","k","a","r","t","a">>>>
  ELSE IF province = JawaBarat THEN
    <<<<"K","a","b","."," ","B","o","g","o","r">>,
      <<"K","o","t","a"," ","B","o","g","o","r">>>>
  ELSE IF province = JawaTengah THEN
    <<<<"K","a","b","."," ","S","e","m","a","r","a","n","g">>,
      <<"K","o","t","a"," ","S","e","m","a","r","a","n","g">>>>
  ELSE <<>>

\* data.address of a Nominatim response; a field the geocoder left out is
\* undefined, hence falsy
NoAddress ==
  [state |-> None, state_district |-> None, region |-> None,
   province |-> None, county |-> None, city |-> None, town |-> None,
   municipality |-> None]

AddrTanjungPriok ==
  [NoAddress EXCEPT !.state = DKIJakarta,
                    !.town = <<"T","a","n","j","u","n","g"," ","P","r","i","o","k">>]

AddrJakartaLong ==
  [NoAddress EXCEPT !.state = <<"D","a","e","r","a","h"," ","K","h","u","s","u","s"," ","I","b","u","k","o","t","a"," ","J","a","k","a","r","t","a">>,
                    !.town = <<"T","a","n","j","u","n","g"," ","P","r","i","o","k">>]

AddrSleman ==
  [NoAddress EXCEPT !.state = <<"D","a","e","r","a","h"," ","I","s","t","i","m","e","w","a"," ","Y","o","g","y","a","k","a","r","t","a">>,
                    !.county = <<"S","l","e","m","a","n">>]

AddrBogor ==
  [NoAddress EXCEPT !.region = JawaBarat,
                    !.city = <<"B","o","g","o","r">>]

AddrNoCity == [NoAddress EXCEPT !.state = JawaTengah]

\* the address records the reverse-geocoding service answers with
Addresses == {NoAddress, AddrTanjungPriok, AddrSleman, AddrNoCity}

\* ------------------------------------------------------------------------
\* reverseGeocode: the selection of the candidates from the address
\* ------------------------------------------------------------------------

Truthy(x) == x # None

\* a reverseGeocode that lists the candidates from county back to state
provinceCandidates_Reversed(address) ==
  SelectSeq(<<address.county, address.province, address.region,
              address.state_district, address.state>>, Truthy)

\* [address.state, ..., address.county].filter(Boolean)
provinceCandidates(address) ==
  SelectSeq(<<address.state, address.state_district, address.region,
              address.province, address.county>>, Truthy)

\* for (const candidate of cands) { foundProvince =
\* findMatchingProvince(candidate); if (foundProvince) break }
RECURSIVE firstResolved(_, _)
firstResolved(cands, provs) ==
  IF cands = <<>> THEN None
  ELSE LET match == findMatchingProvince(Head(cands), provs)
       IN  IF Truthy(match) THEN match
           ELSE firstResolved(Tail(cands), provs)

\* a reverseGeocode that falls back to the first province of the list when
\* the loop resolves no candidate
foundProvince_OrFirst(address, provs) ==
  IF Truthy(firstResolved(provinceCandidates(address), provs))
  THEN firstResolved(provinceCandidates(address), provs)
  ELSE IF provs = <<>> THEN None
  ELSE provs[1]

\* the value of foundProvince after the loop
foundProvince(address, provs) ==
  firstResolved(provinceCandidates(address), provs)

\* a reverseGeocode that looks at city before county
rawCityName_CityFirst(address) ==
  IF Truthy(address.city) THEN address.city
  ELSE IF Truthy(address.county) THEN address.county
  ELSE IF Truthy(address.town) THEN address.town
  ELSE IF Truthy(address.municipality) THEN address.municipality
  ELSE None

rawCityName(address) ==
  IF Truthy(address.county) THEN address.county
  ELSE IF Truthy(address.city) THEN address.city
  ELSE IF Truthy(address.town) THEN address.town
  ELSE IF Truthy(address.municipality) THEN address.municipality
  ELSE None

cityType(address) ==
  IF Truthy(address.county) THEN <<"K","a","b",".">>
  ELSE IF Truthy(address.city) THEN <<"K","o","t","a">>
  ELSE None

\* `${cityType} ${rawCityName}` when the type is known
cityNameForMatching(address) ==
  IF Truthy(cityType(address))
  THEN cityType(address) \o <<" ">> \o rawCityName(address)
  ELSE rawCityName(address)

\* a setLocation without the || citiesList[0]
finalCity_NoFallback(cityName, citiesList) ==
  findMatchingCity(cityName, citiesList)

\* setLocation: const finalCity = matched || citiesList[0]
finalCity(cityName, citiesList) ==
  LET matched == findMatchingCity(cityName, citiesList)
  IN  IF Truthy(matched) THEN matched
      ELSE IF citiesList = <<>> THEN None
      ELSE citiesList[1]

\* ------------------------------------------------------------------------
\* The App component: state, effects and the detection flow
\* ------------------------------------------------------------------------

VARIABLES
  provinces,        \* useState([]): the province reference list
  selectedProvince, \* useState(null)
  selectedCity,     \* useState(null)
  locating,         \* useState(true)
  locationError,    \* useState(null)
  scheduleRequest,  \* the body of the latest fetchSchedule request
  provincesFetch,   \* fetchProvinces: "pending" until its fetch settles
  delayTimer,       \* the 2 s timer of the provinces effect
  geolocation,      \* whether navigator.geolocation exists
  permissionsApi,   \* whether navigator.permissions exists
  permissionState,  \* the browser's geolocation permission
  queries,          \* pending navigator.permissions.query promises
  listeners,        \* 'change' listeners, in the order registered
  attempts,         \* the detectLocation calls, in the order started
  nAttempts,        \* how many detectLocation calls were made
  resolve           \* the resolver run of ResolveSpec (unused by Spec)

vars ==
  <<provinces, selectedProvince, selectedCity, locating, locationError,
    scheduleRequest, provincesFetch, delayTimer, geolocation,
    permissionsApi, permissionState, queries, listeners, attempts,
    nAttempts, resolve>>

\* what fetchCities(province) can return: data.data of the scoped list, or
\* [] when the fetch fails or the response holds no data
CityResponses(province) == {CityList(province), <<>>}

\* the values the state variable provinces takes, hence the lists a
\* closure can have captured
Closures == {<<>>, ProvinceList}

\* foundProvince for every address and captured list, evaluated once
FoundProvinceOf ==
  [address \in Addresses, provs \in Closures |-> foundProvince(address, provs)]

\* finalCity for every setLocation call that can occur, evaluated once
FinalCityOf ==
  [cityName \in {cityNameForMatching(address) : address \in Addresses},
   citiesList \in UNION {CityResponses(ProvinceList[k]) : k \in 1..Len(ProvinceList)}
     |-> finalCity(cityName, citiesList)]

\* setLocationError(null)
NoError == ""

\* PermissionStatus.state.  The code tests it against 'granted' only, so
\* 'denied' behaves as 'prompt' does and is not kept apart from it.
PermissionStates == {"prompt", "granted"}

MsgUnsupported == "Geolocation tidak didukung browser"
MsgPosition == "Lokasi tidak terdeteksi, menggunakan Jakarta"
MsgProvince == "Provinsi tidak ditemukan dalam database"

AttemptIds == 1..MaxAttempts

\* A detectLocation call.  provinces is the list its closure captured
\* (findMatchingProvince reads the provinces of the render that created
\* the detectLocation it is reached from); province and cityName are the
\* arguments of its setLocation call; city is the finalCity of setLocation;
\* reason tags the path on which the call gave up and surfaced is the
\* message that path passed to setLocationError (NoError when it passed
\* none and left the null of the start of the call).
Idle ==
  [phase |-> "idle", provinces |-> <<>>, province |-> None,
   cityName |-> None, city |-> None, reason |-> "", surfaced |-> ""]

\* a detectLocation that calls reverseGeocode without waiting for a position
AwaitPosition_GeocodeAtOnce(provs) ==
  [Idle EXCEPT !.phase = "geocode", !.provinces = provs]

AwaitPosition(provs) == [Idle EXCEPT !.phase = "position", !.provinces = provs]

Failed(reason, message) ==
  [Idle EXCEPT !.phase = "failed", !.reason = reason, !.surfaced = message]

Done(province, city) ==
  [Idle EXCEPT !.phase = "done", !.province = province, !.city = city]

InFlight == {i \in AttemptIds : attempts[i].phase \in {"position", "geocode", "cities"}}

\* no resolver run: the value of resolve throughout Spec
ResolveOff == [stage |-> "off"]

\* the state after the first render and its effects
AppInit ==
  /\ provinces = <<>>
  /\ selectedProvince = None
  /\ selectedCity = None
  /\ locating = TRUE
  /\ locationError = NoError
  /\ scheduleRequest = None
  /\ provincesFetch = "pending"
  /\ delayTimer = "none"
  /\ geolocation \in BOOLEAN
  /\ permissionsApi \in BOOLEAN
  /\ permissionState \in PermissionStates
  \* the permission effect of the first render has called checkPermission
  /\ queries = IF permissionsApi
               THEN {[detect |-> FALSE, provinces |-> <<>>]}
               ELSE {}
  /\ listeners = <<>>
  /\ attempts = [i \in AttemptIds |-> Idle]
  /\ nAttempts = 0

Init == AppInit /\ resolve = ResolveOff

\* a setDefaultLocation that forgets setLocating(false)
setDefaultLocation_KeepsLocating == locating' = locating

\* const setDefaultLocation = () => { ...; setLocating(false) }
setDefaultLocation == locating' = FALSE

\* useEffect(..., [selectedProvince, selectedCity]): fetchSchedule
ScheduleEffect ==
  scheduleRequest' =
    IF /\ <<selectedProvince', selectedCity'>> # <<selectedProvince, selectedCity>>
       /\ Truthy(selectedProvince')
       /\ Truthy(selectedCity')
    THEN [provinsi |-> selectedProvince', kabkota |-> selectedCity']
    ELSE scheduleRequest

\* useEffect(..., [locating, selectedProvince, selectedCity, provinces]):
\* checkPermission starts a query whose then-callback sees the state of
\* this render.  detect is the value of
\* !locating && (!selectedProvince || !selectedCity) in that render.
\* Pending queries whose callbacks see the same state are kept once.
PermissionEffect(pending, rerun) ==
  queries' =
    IF permissionsApi /\ rerun
    THEN pending \cup
           {[detect |-> /\ ~locating'
                        /\ (~Truthy(selectedProvince') \/ ~Truthy(selectedCity')),
             provinces |-> provinces']}
    ELSE pending

DepsChanged ==
  <<locating', selectedProvince', selectedCity', provinces'>>
    # <<locating, selectedProvince, selectedCity, provinces>>

\* The synchronous part of Len(closures) detectLocation calls made in one
\* tick, closures[j] being the provinces the j-th call's closure captured.
detectLocation(closures) ==
  LET new == (nAttempts + 1)..(nAttempts + Len(closures))
  IN  /\ nAttempts' = nAttempts + Len(closures)
      /\ IF geolocation
         THEN /\ locating' = TRUE
              /\ locationError' = NoError
              /\ attempts' = [i \in AttemptIds |->
                                IF i \in new
                                THEN AwaitPosition(closures[i - nAttempts])
                                ELSE attempts[i]]
         ELSE /\ locationError' = MsgUnsupported
              /\ setDefaultLocation
              /\ attempts' = [i \in AttemptIds |->
                                IF i \in new
                                THEN Failed("GeolocationUnsupported", MsgUnsupported)
                                ELSE attempts[i]]

\* fetchProvinces settles: setProvinces(data.data || []), or the catch
ProvincesResponse(outcome) ==
  /\ provincesFetch = "pending"
  /\ provincesFetch' = "done"
  /\ provinces' = IF outcome = "data" THEN ProvinceList ELSE provinces
  \* the provinces effect arms the timer when the list is not empty
  /\ delayTimer' = IF outcome = "data" THEN "armed" ELSE delayTimer
  /\ UNCHANGED <<selectedProvince, selectedCity, locating, locationError,
                 scheduleRequest, geolocation, permissionsApi,
                 permissionState, listeners, attempts, nAttempts, resolve>>
  \* setProvinces installs a new array, also when it is empty
  /\ PermissionEffect(queries, outcome # "error")

\* the setTimeout callback of the provinces effect
DelayTimerFires ==
  /\ delayTimer = "armed"
  /\ nAttempts < MaxAttempts
  /\ delayTimer' = "fired"
  /\ detectLocation(<<provinces>>)
  /\ UNCHANGED <<provinces, selectedProvince, selectedCity, scheduleRequest,
                 provincesFetch, geolocation, permissionsApi,
                 permissionState, listeners, resolve>>
  /\ PermissionEffect(queries, DepsChanged)

\* navigator.permissions.query(...).then(permissionStatus => ...) for the
\* pending query q
PermissionQueryResolves(q) ==
  LET detect == permissionState = "granted" /\ q.detect
  IN  /\ detect => nAttempts < MaxAttempts
      /\ IF detect
         THEN detectLocation(<<q.provinces>>)
         ELSE UNCHANGED <<locating, locationError, attempts, nAttempts>>
      \* permissionStatus.addEventListener('change', ...): the listener
      \* calls the detectLocation of the render of this query
      \* (listeners calling the same detectLocation are kept once)
      /\ listeners' = IF \E j \in 1..Len(listeners) : listeners[j] = q.provinces
                      THEN listeners
                      ELSE Append(listeners, q.provinces)
      /\ UNCHANGED <<provinces, selectedProvince, selectedCity,
                     scheduleRequest, provincesFetch, delayTimer,
                     geolocation, permissionsApi, permissionState, resolve>>
      /\ PermissionEffect(queries \ {q}, DepsChanged)

\* .catch(err => ...) of checkPermission
PermissionQueryRejects(q) ==
  /\ queries' = queries \ {q}
  /\ UNCHANGED <<provinces, selectedProvince, selectedCity, locating,
                 locationError, scheduleRequest, provincesFetch, delayTimer,
                 geolocation, permissionsApi, permissionState, listeners,
                 attempts, nAttempts, resolve>>

\* The permission changes (the user answers the prompt or edits the site
\* settings) and every registered 'change' listener runs.
PermissionChange(newState) ==
  LET room == MaxAttempts - nAttempts
      fire == IF newState = "granted"
              THEN SubSeq(listeners, 1,
                          IF Len(listeners) < room THEN Len(listeners) ELSE room)
              ELSE <<>>
  IN  /\ newState # permissionState
      /\ permissionState' = newState
      \* setLocationError(null); detectLocation()
      /\ IF fire # <<>>
         THEN detectLocation(fire)
         ELSE UNCHANGED <<locating, locationError, attempts, nAttempts>>
      /\ UNCHANGED <<provinces, selectedProvince, selectedCity,
                     scheduleRequest, provincesFetch, delayTimer,
                     geolocation, permissionsApi, listeners, resolve>>
      /\ PermissionEffect(queries, DepsChanged)

\* whether one of the two buttons wired to retryLocation can be pressed
RetryEnabled ==
  \/ Truthy(selectedCity) /\ Truthy(selectedProvince) /\ ~locating
  \/ locationError # NoError /\ ~locating

\* const retryLocation = () => detectLocation()
retryLocation ==
  /\ RetryEnabled
  /\ nAttempts < MaxAttempts
  /\ detectLocation(<<provinces>>)
  /\ UNCHANGED <<provinces, selectedProvince, selectedCity, scheduleRequest,
                 provincesFetch, delayTimer, geolocation, permissionsApi,
                 permissionState, listeners, resolve>>
  /\ PermissionEffect(queries, DepsChanged)

\* the success callback of getCurrentPosition up to the fetch of
\* reverseGeocode; the platform delivers a position only with permission
PositionSuccess(i) ==
  /\ attempts[i].phase = "position"
  /\ permissionState = "granted"
  /\ attempts' = [attempts EXCEPT ![i].phase = "geocode"]
  /\ UNCHANGED <<provinces, selectedProvince, selectedCity, locating,
                 locationError, scheduleRequest, provincesFetch, delayTimer,
                 geolocation, permissionsApi, permissionState, queries,
                 listeners, nAttempts, resolve>>

\* the error callback of getCurrentPosition (denied, unavailable, timeout)
PositionError(i) ==
  /\ attempts[i].phase = "position"
  /\ locationError' = MsgPosition
  /\ setDefaultLocation
  /\ attempts' = [attempts EXCEPT ![i] = Failed("PositionUnavailable", MsgPosition)]
  /\ UNCHANGED <<provinces, selectedProvince, selectedCity, scheduleRequest,
                 provincesFetch, delayTimer, geolocation, permissionsApi,
                 permissionState, listeners, nAttempts, resolve>>
  /\ PermissionEffect(queries, DepsChanged)

\* reverseGeocode: the fetch or response.json() throws (the catch), or the
\* response holds no address (the else of data?.address)
GeocodeNoAddress(i) ==
  /\ attempts[i].phase = "geocode"
  /\ setDefaultLocation
  /\ attempts' = [attempts EXCEPT ![i] = Failed("GeocodeFailed", NoError)]
  /\ UNCHANGED <<provinces, selectedProvince, selectedCity, locationError,
                 scheduleRequest, provincesFetch, delayTimer, geolocation,
                 permissionsApi, permissionState, listeners, nAttempts,
                 resolve>>
  /\ PermissionEffect(queries, DepsChanged)

\* reverseGeocode with data.address = address, up to the await of
\* fetchCities inside setLocation
GeocodeAddress(i, address) ==
  LET found == FoundProvinceOf[address, attempts[i].provinces]
  IN  /\ attempts[i].phase = "geocode"
      /\ IF ~Truthy(found)
         THEN /\ locationError' = MsgProvince
              /\ setDefaultLocation
              /\ attempts' = [attempts EXCEPT
                                ![i] = Failed("ProvinceNotFound", MsgProvince)]
              /\ UNCHANGED selectedProvince
         ELSE IF ~Truthy(rawCityName(address))
         THEN /\ setDefaultLocation
              /\ attempts' = [attempts EXCEPT
                                ![i] = Failed("CityNotFound", NoError)]
              /\ UNCHANGED <<locationError, selectedProvince>>
         ELSE \* setLocation: setSelectedProvince(province), then the fetch
              /\ selectedProvince' = found
              /\ attempts' = [attempts EXCEPT
                                ![i].phase = "cities",
                                ![i].province = found,
                                ![i].cityName = cityNameForMatching(address)]
              /\ UNCHANGED <<locating, locationError>>
      /\ UNCHANGED <<provinces, selectedCity, provincesFetch, delayTimer,
                     geolocation, permissionsApi, permissionState, listeners,
                     nAttempts, resolve>>
      /\ ScheduleEffect
      /\ PermissionEffect(queries, DepsChanged)

\* setLocation after the await: fetchCities returned citiesList
CitiesResponse(i, citiesList) ==
  LET city == FinalCityOf[attempts[i].cityName, citiesList]
  IN  /\ attempts[i].phase = "cities"
      /\ selectedCity' = IF Truthy(city) THEN city ELSE selectedCity
      /\ locating' = FALSE
      /\ attempts' = [attempts EXCEPT ![i] = Done(attempts[i].province, city)]
      /\ UNCHANGED <<provinces, selectedProvince, locationError,
                     provincesFetch, delayTimer, geolocation, permissionsApi,
                     permissionState, listeners, nAttempts, resolve>>
      /\ ScheduleEffect
      /\ PermissionEffect(queries, DepsChanged)

Next ==
  \/ \E outcome \in {"data", "empty", "error"} : ProvincesResponse(outcome)
  \/ DelayTimerFires
  \/ \E q \in queries : PermissionQueryResolves(q)
  \/ \E q \in queries : PermissionQueryRejects(q)
  \/ \E newState \in PermissionStates : PermissionChange(newState)
  \/ retryLocation
  \/ \E i \in AttemptIds : PositionSuccess(i)
  \/ \E i \in AttemptIds : PositionError(i)
  \/ \E i \in AttemptIds : GeocodeNoAddress(i)
  \/ \E i \in AttemptIds : \E address \in Addresses : GeocodeAddress(i, address)
  \/ \E i \in AttemptIds :
       \E citiesList \in CityResponses(attempts[i].province) :
         CitiesResponse(i, citiesList)

Spec == Init /\ [][Next]_vars

\* ------------------------------------------------------------------------
\* The resolvers on their own: one run of the candidate selection of
\* reverseGeocode, of its province loop and of findMatchingCity, for an
\* address, a province list and a city list drawn from bounded sets
\* ------------------------------------------------------------------------

AddrCountySleman == [NoAddress EXCEPT !.county = <<"S","l","e","m","a","n">>]

AddrCountyBogor ==
  [NoAddress EXCEPT !.state = JawaBarat,
                    !.county = <<"B","o","g","o","r">>]

AddrRegionOnly ==
  [NoAddress EXCEPT !.region = JawaTengah,
                    !.municipality = <<"S","e","m","a","r","a","n","g">>]

\* state is the empty string; the two next candidates name two provinces
AddrDistrictFirst ==
  [NoAddress EXCEPT !.state_district = JawaTengah,
                    !.region = JawaBarat,
                    !.city = <<"S","e","m","a","r","a","n","g">>]

\* state names no province of the list, province does
AddrUnknownState ==
  [NoAddress EXCEPT !.state = <<"J","a","v","a">>,
                    !.province = DKIJakarta,
                    !.town = <<"T","a","n","j","u","n","g"," ","P","r","i","o","k">>]

\* all four city fields populated, each with another name
AddrAllCityFields ==
  [NoAddress EXCEPT !.state = JawaTengah,
                    !.county = <<"S","e","m","a","r","a","n","g">>,
                    !.city = <<"S","a","l","a","t","i","g","a">>,
                    !.town = <<"U","n","g","a","r","a","n">>,
                    !.municipality = <<"A","m","b","a","r","a","w","a">>]

AddrCityAndTown ==
  [NoAddress EXCEPT !.region = JawaBarat,
                    !.city = <<"B","o","g","o","r">>,
                    !.town = <<"C","i","b","i","n","o","n","g">>,
                    !.municipality = <<"C","i","t","e","u","r","e","u","p">>]

AddrTownAndMunicipality ==
  [NoAddress EXCEPT !.state = JawaBarat,
                    !.town = <<"C","i","b","i","n","o","n","g">>,
                    !.municipality = <<"C","i","t","e","u","r","e","u","p">>]

ResolveAddresses ==
  {NoAddress, AddrTanjungPriok, AddrJakartaLong, AddrSleman, AddrBogor,
   AddrNoCity, AddrCountySleman, AddrCountyBogor, AddrRegionOnly,
   AddrDistrictFirst, AddrUnknownState, AddrAllCityFields, AddrCityAndTown,
   AddrTownAndMunicipality}

ResolveProvinceLists == {ProvinceList, <<JawaTengah, DKIJakarta>>, <<>>}

ResolveCityLists ==
  {CityList(DKIJakarta), CityList(DIYogyakarta), CityList(JawaBarat),
   <<<<"K","o","t","a"," ","B","o","g","o","r">>,
     <<"K","a","b","."," ","B","o","g","o","r">>>>,
   <<>>}

\* the members of a sequence
Range(list) == {list[k] : k \in 1..Len(list)}

ResolveInit ==
  /\ AppInit
  /\ geolocation
  /\ permissionsApi
  /\ permissionState = "prompt"
  /\ resolve \in
       [stage : {"input"},
        address : ResolveAddresses,
        provs : ResolveProvinceLists,
        cities : ResolveCityLists,
        provinceCandidates : {<<>>},
        rawCityName : {None},
        cityType : {None},
        cityNameForMatching : {None},
        provinceDone : {FALSE},
        foundProvince : {None},
        provinceStep : {"none"},
        cityDone : {FALSE},
        matched : {None},
        cityStep : {"none"},
        exitDone : {FALSE},
        exit : {"none"},
        fetchCities : {FALSE}]

\* the step of findMatchingProvince that resolved the first candidate the
\* loop of reverseGeocode resolves, "none" when it resolves none
RECURSIVE firstResolvedStep(_, _)
firstResolvedStep(cands, provs) ==
  IF cands = <<>> THEN "none"
  ELSE IF ProvinceStep(Head(cands), provs) # "none"
  THEN ProvinceStep(Head(cands), provs)
  ELSE firstResolvedStep(Tail(cands), provs)

\* reverseGeocode from the address to cityNameForMatching
SelectCandidates ==
  /\ resolve.stage = "input"
  /\ resolve' = [resolve EXCEPT
                   !.stage = "selected",
                   !.provinceCandidates = provinceCandidates(resolve.address),
                   !.rawCityName = rawCityName(resolve.address),
                   !.cityType = cityType(resolve.address),
                   !.cityNameForMatching = cityNameForMatching(resolve.address)]
  /\ UNCHANGED <<provinces, selectedProvince, selectedCity, locating,
                 locationError, scheduleRequest, provincesFetch, delayTimer,
                 geolocation, permissionsApi, permissionState, queries,
                 listeners, attempts, nAttempts>>

\* the province loop of reverseGeocode over the candidates
ResolveProvince ==
  /\ resolve.stage = "selected"
  /\ ~resolve.provinceDone
  /\ resolve' = [resolve EXCEPT
                   !.provinceDone = TRUE,
                   !.foundProvince =
                      firstResolved(resolve.provinceCandidates, resolve.provs),
                   !.provinceStep =
                      firstResolvedStep(resolve.provinceCandidates, resolve.provs)]
  /\ UNCHANGED <<provinces, selectedProvince, selectedCity, locating,
                 locationError, scheduleRequest, provincesFetch, delayTimer,
                 geolocation, permissionsApi, permissionState, queries,
                 listeners, attempts, nAttempts>>

\* findMatchingCity(cityNameForMatching, citiesList)
ResolveCity ==
  /\ resolve.stage = "selected"
  /\ ~resolve.cityDone
  /\ resolve' = [resolve EXCEPT
                   !.cityDone = TRUE,
                   !.matched =
                      findMatchingCity(resolve.cityNameForMatching, resolve.cities),
                   !.cityStep =
                      CityStep(resolve.cityNameForMatching, resolve.cities)]
  /\ UNCHANGED <<provinces, selectedProvince, selectedCity, locating,
                 locationError, scheduleRequest, provincesFetch, delayTimer,
                 geolocation, permissionsApi, permissionState, queries,
                 listeners, attempts, nAttempts>>

\* the way reverseGeocode leaves once the province loop has run: the
\* return after 'Provinsi tidak ditemukan dalam database', the return of
\* if (!rawCityName), or the call of setLocation, whose first await is
\* fetchCities(province)
ReverseGeocodeExit ==
  /\ resolve.stage = "selected"
  /\ resolve.provinceDone
  /\ ~resolve.exitDone
  /\ resolve' = [resolve EXCEPT
                   !.exitDone = TRUE,
                   !.exit = IF ~Truthy(resolve.foundProvince)
                            THEN "ProvinceNotFound"
                            ELSE IF ~Truthy(resolve.rawCityName)
                            THEN "CityNotFound"
                            ELSE "setLocation",
                   !.fetchCities = /\ Truthy(resolve.foundProvince)
                                   /\ Truthy(resolve.rawCityName)]
  /\ UNCHANGED <<provinces, selectedProvince, selectedCity, locating,
                 locationError, scheduleRequest, provincesFetch, delayTimer,
                 geolocation, permissionsApi, permissionState, queries,
                 listeners, attempts, nAttempts>>

ResolveNext ==
  SelectCandidates \/ ResolveProvince \/ ResolveCity \/ ReverseGeocodeExit

ResolveSpec == ResolveInit /\ [][ResolveNext]_vars

\* ------------------------------------------------------------------------
\* findMatchingProvince and findMatchingCity on their own: one call with a
\* name and a list drawn from bounded sets, the normalisation of the name
\* applied once and twice, and the call for the stripped form of an entry
\* ------------------------------------------------------------------------

AppVars ==
  <<provinces, selectedProvince, selectedCity, locating, locationError,
    scheduleRequest, provincesFetch, delayTimer, geolocation, permissionsApi,
    permissionState, queries, listeners, attempts, nAttempts>>

PapuaList == <<<<"P","a","p","u","a"," ","B","a","r","a","t">>, <<"P","a","p","u","a">>>>

BandungList == <<<<"K","a","b","."," ","B","a","n","d","u","n","g"," ","B","a","r","a","t">>, <<"K","a","b","."," ","B","a","n","d","u","n","g">>, <<"K","o","t","a"," ","B","a","n","d","u","n","g">>>>

MatchProvinceNames ==
  {None, <<"D","a","e","r","a","h"," ","I","s","t","i","m","e","w","a"," ","Y","o","g","y","a","k","a","r","t","a">>, <<"D","a","e","r","a","h"," ","K","h","u","s","u","s"," ","I","b","u","k","o","t","a"," ","J","a","k","a","r","t","a">>,
   <<"P","r","o","v","i","n","s","i"," ","J","a","w","a"," ","T","e","n","g","a","h">>, <<"P","a","p","u","a">>, <<"J","a","v","a">>, <<"D","K","I"," ","J","a","k","a","r","t","a">>}

MatchProvinceLists == {ProvinceList, PapuaList, <<>>}

MatchCityNames ==
  {None, <<"K","a","b","."," ","S","l","e","m","a","n">>, <<"K","o","t","a"," ","B","o","g","o","r">>, <<"B","o","g","o","r">>, <<"K","a","b","u","p","a","t","e","n"," ","B","a","n","d","u","n","g">>,
   <<"T","a","n","j","u","n","g"," ","P","r","i","o","k">>, <<"K","o","t","a"," ","Y","o","g","y","a","k","a","r","t","a">>}

MatchCityLists ==
  {CityList(DIYogyakarta), CityList(JawaBarat), BandungList, <<>>}

\* the normalisation of the name by the resolver of the kind
Normalize(kind, name) ==
  IF kind = "province" THEN NormalizeProvince(name) ELSE NormalizeCity(name)

\* the stripping of a list entry by the resolver of the kind
StripEntry(kind, entry) ==
  IF kind = "province" THEN StripProvinceEntry(entry) ELSE StripCityEntry(entry)

\* the resolver of the kind
Resolver(kind, name, list) ==
  IF kind = "province" THEN findMatchingProvince(name, list)
  ELSE findMatchingCity(name, list)

\* the step of the resolver of the kind that produced its result
ResolverStep(kind, name, list) ==
  IF kind = "province" THEN ProvinceStep(name, list) ELSE CityStep(name, list)

MatchInit ==
  /\ AppInit
  /\ geolocation
  /\ permissionsApi
  /\ permissionState = "prompt"
  /\ resolve \in
       [stage : {"match"},
        kind : {"province"},
        name : MatchProvinceNames,
        list : MatchProvinceLists,
        normalizeDone : {FALSE}, normalized : {None}, normalizedTwice : {None},
        matchDone : {FALSE}, result : {None}, step : {"none"},
        entryDone : {FALSE}, entry : {None}, entryResult : {None}]
       \cup
       [stage : {"match"},
        kind : {"city"},
        name : MatchCityNames,
        list : MatchCityLists,
        normalizeDone : {FALSE}, normalized : {None}, normalizedTwice : {None},
        matchDone : {FALSE}, result : {None}, step : {"none"},
        entryDone : {FALSE}, entry : {None}, entryResult : {None}]

\* normalizedName of the resolver, and the normalisation applied to it again
NormalizeName ==
  /\ resolve.stage = "match"
  /\ ~resolve.normalizeDone
  /\ resolve' = [resolve EXCEPT
                   !.normalizeDone = TRUE,
                   !.normalized = Normalize(resolve.kind, resolve.name),
                   !.normalizedTwice =
                      Normalize(resolve.kind, Normalize(resolve.kind, resolve.name))]
  /\ UNCHANGED AppVars

\* findMatchingProvince(name) / findMatchingCity(name, citiesList)
MatchName ==
  /\ resolve.stage = "match"
  /\ ~resolve.matchDone
  /\ resolve' = [resolve EXCEPT
                   !.matchDone = TRUE,
                   !.result = Resolver(resolve.kind, resolve.name, resolve.list),
                   !.step = ResolverStep(resolve.kind, resolve.name, resolve.list)]
  /\ UNCHANGED AppVars

\* the resolver called with the stripped, lower-cased form of the k-th entry
MatchEntry(k) ==
  /\ resolve.stage = "match"
  /\ ~resolve.entryDone
  /\ k \in 1..Len(resolve.list)
  /\ resolve' = [resolve EXCEPT
                   !.entryDone = TRUE,
                   !.entry = resolve.list[k],
                   !.entryResult =
                      Resolver(resolve.kind,
                               StripEntry(resolve.kind, resolve.list[k]),
                               resolve.list)]
  /\ UNCHANGED AppVars

MatchNext ==
  \/ NormalizeName
  \/ MatchName
  \/ \E k \in 1..Len(resolve.list) : MatchEntry(k)

MatchSpec == MatchInit /\ [][MatchNext]_vars

\* Every collaborator eventually answers a request that is pending: the
\* platform calls one of the two callbacks of getCurrentPosition (its
\* timeout option bounds the wait), and each fetch settles.
Fairness ==
  \A i \in AttemptIds :
    /\ WF_vars(PositionSuccess(i) \/ PositionError(i))
    /\ WF_vars(GeocodeNoAddress(i) \/ \E address \in Addresses : GeocodeAddress(i, address))
    /\ WF_vars(\E citiesList \in CityResponses(attempts[i].province) :
                 CitiesResponse(i, citiesList))

FairSpec == Spec /\ Fairness

\* ------------------------------------------------------------------------
\* Properties
\* ------------------------------------------------------------------------

Terminal == {"done", "failed"}

\* C1: in every reachable state a selected province is an entry of the
\* province reference list and a selected city is an entry of the city
\* reference list of the selected province.
C1_SelectionInReferenceLists ==
  /\ Truthy(selectedProvince) => selectedProvince \in Range(ProvinceList)
  /\ Truthy(selectedCity) =>
       /\ Truthy(selectedProvince)
       /\ selectedCity \in Range(CityList(selectedProvince))

\* C2: once no attempt is in flight, the selected province and city, the
\* error message and the locating flag are those of the attempt started
\* last, whatever the order in which the attempts resolved.
C2_LastStartedAttemptWins ==
  (nAttempts > 0 /\ InFlight = {}) =>
    LET last == attempts[nAttempts]
    IN  /\ ~locating
        /\ last.phase = "done" =>
             /\ selectedProvince = last.province
             /\ Truthy(last.city) => selectedCity = last.city
        /\ last.phase = "failed" => locationError = last.surfaced

\* C3: no reachable state has two attempts in flight.
C3_AtMostOneAttemptInFlight == Cardinality(InFlight) <= 1

\* the state the claim C4 starts from, on a platform with geolocation: the
\* last attempt failed, nothing is in flight, locating is cleared, nothing
\* is selected, the permission is granted (and the delay timer is not
\* about to fire)
FailedAndGranted ==
  /\ geolocation
  /\ nAttempts > 0
  /\ InFlight = {}
  /\ attempts[nAttempts].phase = "failed"
  /\ ~locating
  /\ ~Truthy(selectedProvince)
  /\ ~Truthy(selectedCity)
  /\ permissionState = "granted"
  /\ delayTimer # "armed"

\* C4: after a failed attempt, with the permission granted, the next
\* detectLocation call is the one of a press on a retry button.
C4_NoAttemptWithoutRetry ==
  [][(FailedAndGranted /\ nAttempts' > nAttempts) => retryLocation]_vars

\* C5: two attempts that failed for different reasons surfaced different
\* failure messages to the caller.
C5_FailureReasonsDistinguishable ==
  \A i, j \in AttemptIds :
    (/\ attempts[i].phase = "failed"
     /\ attempts[j].phase = "failed"
     /\ attempts[i].reason # attempts[j].reason)
    => attempts[i].surfaced # attempts[j].surfaced

\* C6: every attempt in flight eventually reaches done or failed, and the
\* step on which an attempt reaches done or failed clears locating.
C6_EveryAttemptTerminates ==
  /\ \A i \in AttemptIds : (i \in InFlight) ~> (attempts[i].phase \in Terminal)
  /\ [][\A i \in AttemptIds :
          (attempts[i].phase \notin Terminal /\ attempts'[i].phase \in Terminal)
          => ~locating']_vars

C6_Witness ==
  /\ attempts[1].phase = "done"
  /\ attempts[2].phase = "failed"
  /\ attempts[2].reason = "CityNotFound"
  /\ ~locating

\* C7: when setLocation receives a non-empty city list, it selects an entry
\* of that list, and the first entry when findMatchingCity finds none.
C7_FallbackSelectsCity ==
  [][\A i \in AttemptIds :
       \A citiesList \in CityResponses(attempts[i].province) :
         (CitiesResponse(i, citiesList) /\ citiesList # <<>>)
         => /\ Truthy(selectedCity')
            /\ selectedCity' \in Range(citiesList)
            /\ attempts'[i].city = selectedCity'
            /\ ~Truthy(findMatchingCity(attempts[i].cityName, citiesList))
                 => selectedCity' = citiesList[1]]_vars

\* town 'Tanjung Priok' against ['Kota Jakarta Utara']
C7_Witness ==
  \E i \in AttemptIds :
    /\ attempts[i].phase = "done"
    /\ attempts[i].province = DKIJakarta
    /\ ~Truthy(findMatchingCity(<<"T","a","n","j","u","n","g"," ","P","r","i","o","k">>,
                                CityList(DKIJakarta)))
    /\ selectedCity = <<"K","o","t","a"," ","J","a","k","a","r","t","a"," ","U","t","a","r","a">>

\* whether the loop of reverseGeocode resolves no candidate of the address
NoCandidateResolves(address, provs) ==
  \A k \in 1..Len(provinceCandidates(address)) :
    ~Truthy(findMatchingProvince(provinceCandidates(address)[k], provs))

\* C8: when no province candidate of the address resolves, the attempt
\* fails as ProvinceNotFound on that step, stays failed (so it never
\* fetches the city list), and the step leaves the selected province, the
\* selected city and the schedule request as they were.
C8_ProvinceNotFoundSelectsNothing ==
  [][\A i \in AttemptIds :
       /\ \A address \in Addresses :
            (/\ GeocodeAddress(i, address)
             /\ NoCandidateResolves(address, attempts[i].provinces))
            => /\ attempts'[i].phase = "failed"
               /\ attempts'[i].reason = "ProvinceNotFound"
               /\ selectedProvince' = selectedProvince
               /\ selectedCity' = selectedCity
               /\ scheduleRequest' = scheduleRequest
       /\ attempts[i].phase = "failed" => attempts'[i] = attempts[i]]_vars

\* the attempt of the delay timer, which saw the loaded province list,
\* failed as ProvinceNotFound and nothing is selected
C8_Witness ==
  /\ delayTimer = "fired"
  /\ nAttempts = 1
  /\ attempts[1].phase = "failed"
  /\ attempts[1].reason = "ProvinceNotFound"
  /\ ~Truthy(selectedProvince)
  /\ ~Truthy(selectedCity)

\* C9: the province query 'Daerah Khusus Ibukota Jakarta' against a list
\* containing 'DKI Jakarta' is resolved to 'DKI Jakarta' by the partial
\* match.
C9_JakartaLongNameResolves ==
  (/\ resolve.stage = "selected"
   /\ resolve.provinceDone
   /\ resolve.provinceCandidates = <<<<"D","a","e","r","a","h"," ","K","h","u","s","u","s"," ","I","b","u","k","o","t","a"," ","J","a","k","a","r","t","a">>>>
   /\ DKIJakarta \in Range(resolve.provs))
  => /\ resolve.foundProvince = DKIJakarta
     /\ resolve.provinceStep = "partial"

\* C10: for an address with county X the query of findMatchingCity is
\* 'Kab. X', and against a list containing 'Kab. X' its exact match
\* returns 'Kab. X'.
C10_CountyExactMatch ==
  (/\ resolve.stage = "selected"
   /\ resolve.cityDone
   /\ Truthy(resolve.address.county)
   /\ (<<"K","a","b","."," ">> \o resolve.address.county) \in Range(resolve.cities))
  => /\ resolve.cityNameForMatching = <<"K","a","b","."," ">> \o resolve.address.county
     /\ resolve.matched = <<"K","a","b","."," ">> \o resolve.address.county
     /\ resolve.cityStep = "exact"

\* C11: for every entry of a list, the resolver called with the entry's
\* own stripped, lower-cased form and that list returns that entry.
C11_ExactRoundTrip ==
  (resolve.stage = "match" /\ resolve.entryDone)
  => resolve.entryResult = resolve.entry

\* C12: the normalisation of a name is idempotent, for the province rules
\* and for the city rules.
C12_NormalizeIdempotent ==
  (resolve.stage = "match" /\ resolve.normalizeDone)
  => resolve.normalizedTwice = resolve.normalized

\* C13: findMatchingProvince returns either no province or an entry of the
\* list it searched, and no province for an absent or empty name.
C13_ProvinceFromList ==
  (resolve.stage = "match" /\ resolve.kind = "province" /\ resolve.matchDone)
  => /\ resolve.result = None \/ resolve.result \in Range(resolve.list)
     /\ ~Truthy(resolve.name) => resolve.result = None

C13_Witness ==
  /\ resolve.stage = "match"
  /\ resolve.kind = "province"
  /\ resolve.matchDone
  /\ resolve.step = "partial"
  /\ resolve.result \in Range(resolve.list)
  /\ resolve.name \notin Range(resolve.list)

\* C14: the province candidates are the non-empty ones of state,
\* state_district, region, province, county in that order, and the province
\* found is the result of findMatchingProvince for the earliest of them
\* that it resolves.
C14_FirstResolvingCandidate ==
  (resolve.stage = "selected" /\ resolve.provinceDone)
  => LET fields == <<resolve.address.state, resolve.address.state_district,
                     resolve.address.region, resolve.address.province,
                     resolve.address.county>>
         resolving == {k \in 1..5 :
                         /\ fields[k] # None
                         /\ findMatchingProvince(fields[k], resolve.provs) # None}
     IN  /\ resolve.provinceCandidates = SelectSeq(fields, LAMBDA f : f # None)
         /\ IF resolving = {} THEN resolve.foundProvince = None
            ELSE \E k \in resolving :
                   /\ \A j \in resolving : k <= j
                   /\ resolve.foundProvince =
                        findMatchingProvince(fields[k], resolve.provs)

C14_Witness ==
  /\ resolve.stage = "selected"
  /\ resolve.provinceDone
  /\ resolve.address.state = None
  /\ resolve.address.state_district = JawaTengah
  /\ findMatchingProvince(resolve.address.region, resolve.provs) = JawaBarat
  /\ resolve.foundProvince = JawaTengah

\* C15: the city name is the first populated one of county, city, town,
\* municipality; county gives the type 'Kab.', city the type 'Kota', town
\* and municipality none; the name handed to findMatchingCity is the type,
\* a space and the city name when there is a type and the city name alone
\* otherwise; with a province found and none of the four fields populated
\* reverseGeocode gives up as CityNotFound without fetching the city list.
C15_CityExtraction ==
  resolve.stage = "selected"
  => LET a == resolve.address
         fields == <<a.county, a.city, a.town, a.municipality>>
         hints == <<<<"K","a","b",".">>, <<"K","o","t","a">>, None, None>>
         populated == {k \in 1..4 : fields[k] # None}
     IN  /\ populated = {}
            => /\ resolve.rawCityName = None
               /\ (resolve.exitDone /\ resolve.foundProvince # None)
                  => (resolve.exit = "CityNotFound" /\ ~resolve.fetchCities)
         /\ \A k \in populated :
              (\A j \in populated : k <= j)
              => /\ resolve.rawCityName = fields[k]
                 /\ resolve.cityType = hints[k]
                 /\ resolve.cityNameForMatching =
                      IF hints[k] # None THEN hints[k] \o <<" ">> \o fields[k]
                      ELSE fields[k]

C15_Witness ==
  /\ resolve.stage = "selected"
  /\ resolve.address.county # None
  /\ resolve.address.city # None
  /\ resolve.address.city # resolve.address.county
  /\ resolve.cityNameForMatching = <<"K","a","b","."," ">> \o resolve.address.county

\* C16: an attempt issues the reverse-geocoding call only on the step that
\* delivers it a position, and issues the city list fetch only on a
\* reverse-geocoding response that resolved a province, for that province.
C16_StepsSequential ==
  [][\A i \in AttemptIds :
       /\ (attempts[i].phase # "geocode" /\ attempts'[i].phase = "geocode")
          => (attempts[i].phase = "position" /\ PositionSuccess(i))
       /\ (attempts[i].phase # "cities" /\ attempts'[i].phase = "cities")
          => /\ attempts[i].phase = "geocode"
             /\ attempts'[i].province # None
             /\ \E address \in Addresses :
                  /\ GeocodeAddress(i, address)
                  /\ attempts'[i].province =
                       firstResolved(provinceCandidates(address),
                                     attempts[i].provinces)]_vars

C16_Witness ==
  /\ attempts[1].phase = "cities"
  /\ attempts[1].province = DIYogyakarta
  /\ attempts[2].phase = "geocode"

\* C17: an attempt whose city list came back empty does not end as done
\* with a province and no city: every attempt that is done has a city.
C17_EmptyCityListFails ==
  \A i \in AttemptIds :
    attempts[i].phase = "done" => attempts[i].city # None

\* C18: once an attempt has failed and the failure has been handled
\* (locating cleared, nothing in flight), a province and a city are
\* selected.
C18_DefaultLocationApplied ==
  (/\ \E i \in AttemptIds : attempts[i].phase = "failed"
   /\ ~locating
   /\ InFlight = {})
  => /\ selectedProvince # None
     /\ selectedCity # None

\* the result the two steps give in strict priority: the first entry whose
\* stripped form equals the normalised name, else the first entry whose
\* stripped form contains it or is contained in it, else none
PriorityResult(kind, name, list) ==
  LET normalizedName == Normalize(kind, name)
      exact == {i \in 1..Len(list) : StripEntry(kind, list[i]) = normalizedName}
      partial == {i \in 1..Len(list) :
                    \/ includes(StripEntry(kind, list[i]), normalizedName)
                    \/ includes(normalizedName, StripEntry(kind, list[i]))}
  IN  IF exact # {} THEN list[CHOOSE i \in exact : \A j \in exact : i <= j]
      ELSE IF partial # {}
      THEN list[CHOOSE i \in partial : \A j \in partial : i <= j]
      ELSE None

\* C19 as stated: for every name, both resolvers return the first exact
\* match if there is one, else the first partial match, and nothing only
\* when no entry satisfies either test.
C19_ExactBeforePartial_EveryName ==
  (resolve.stage = "match" /\ resolve.matchDone)
  => resolve.result = PriorityResult(resolve.kind, resolve.name, resolve.list)

\* C19, amended: for every name that is present (not absent, not empty),
\* both resolvers return the first exact match if there is one, else the
\* first partial match, and nothing only when no entry satisfies either
\* test; for an absent or empty name they return nothing.
C19_ExactBeforePartial ==
  (resolve.stage = "match" /\ resolve.matchDone)
  => IF resolve.name # None
     THEN resolve.result =
            PriorityResult(resolve.kind, resolve.name, resolve.list)
     ELSE resolve.result = None

C19_Witness ==
  /\ resolve.stage = "match"
  /\ resolve.kind = "city"
  /\ resolve.matchDone
  /\ resolve.name # None
  /\ Len(resolve.list) >= 2
  /\ includes(StripCityEntry(resolve.list[1]), NormalizeCity(resolve.name))
  /\ StripCityEntry(resolve.list[1]) # NormalizeCity(resolve.name)
  /\ resolve.step = "exact"
  /\ resolve.result = resolve.list[2]

\* C20: with the city name taken from field city (type 'Kota') and a city
\* list holding both 'Kab. X' and 'Kota X', findMatchingCity returns
\* 'Kota X' whatever the order of the two entries; with the city name taken
\* from field county (type 'Kab.') it returns 'Kab. X'.
C20_TypeHintHonoured ==
  (/\ resolve.stage = "selected"
   /\ resolve.cityDone
   /\ resolve.rawCityName # None
   /\ resolve.cityType # None
   /\ (<<"K","a","b","."," ">> \o resolve.rawCityName) \in Range(resolve.cities)
   /\ (<<"K","o","t","a"," ">> \o resolve.rawCityName) \in Range(resolve.cities))
  => resolve.matched = resolve.cityType \o <<" ">> \o resolve.rawCityName

\* C21: locating is true in every state in which an attempt is in flight
\* (waiting for the position, the reverse-geocoding response or the city
\* list), so a retry button cannot start an attempt while another runs.
C21_LocatingWhileInFlight ==
  /\ InFlight # {} => locating
  /\ InFlight # {} => ~RetryEnabled

=============================================================================
